---- MODULE Spec2Model ----
(***************************************************************************)
(* Festival schedule scripts: scripts/parse_dtrh2025.py (concurrent scrape *)
(* of artist pages, extraction of events, assembly into a nested schedule) *)
(* and scripts/scaffold_bks2026.py (persisted schedule, interactive        *)
(* annotation).                                                            *)
(*                                                                         *)
(* Python strings whose characters matter (times, weekday and stage texts) *)
(* are sequences of one-character strings, so that split, strip, lower,    *)
(* int and string comparison are computed rather than assumed.             *)
(***************************************************************************)
EXTENDS Integers, Sequences, FiniteSets, TLC

VARIABLES
    pc,             \* position of the script that is running
    clock,          \* (hours, minutes) as returned by prompt_for_time
    time,           \* the "HH:MM" text handed to compute_sort_key_from_time
    key,            \* what compute_sort_key_from_time returned
    parsed_events,  \* the flat list of ParsedEvent handed to the assembler
    schedule,       \* the Schedule object in memory
    page,           \* what requests.get gives for the artist page being extracted
    extracted,      \* what gather_events_from_artist_page returned or raised
    artist_links,   \* the <a class="group"> tags of the programme page
    link_index,     \* the link the submission loop of gather_events is at
    futures,        \* the submitted tasks, in submission order
    completed,      \* the futures as_completed has yielded, in that order
    events,         \* the list gather_events accumulates and returns
    cursor,         \* how far the loops of annotate_events have come
    file,           \* the JSON document at output_path
    loaded          \* what Schedule.load makes of the file in the next run

keyVars == <<clock, time, key>>
asmVars == <<parsed_events, schedule>>
extVars == <<page, extracted>>
gatVars == <<artist_links, link_index, futures, completed, events>>
annVars == <<cursor, file, loaded>>
notKeyVars == <<asmVars, extVars, gatVars, annVars>>
notAsmVars == <<keyVars, extVars, gatVars, annVars>>
notExtVars == <<keyVars, asmVars, gatVars, annVars>>
notGatVars == <<keyVars, asmVars, extVars, annVars>>
notAnnVars == <<keyVars, extVars, gatVars>>
vars == <<pc, clock, time, key, parsed_events, schedule, page, extracted,
         artist_links, link_index, futures, completed, events, cursor, file, loaded>>

(***************************************************************************)
(* Characters and strings                                                  *)
(***************************************************************************)
Digits == <<"0", "1", "2", "3", "4", "5", "6", "7", "8", "9">>

IsDigit(c) == \E i \in 1..10 : Digits[i] = c

DigitValue(c) == (CHOOSE i \in 1..10 : Digits[i] = c) - 1

\* the pieces of s between occurrences of sep, cur being the piece in progress
RECURSIVE SplitFrom(_, _, _)
SplitFrom(s, sep, cur) ==
    IF s = <<>> THEN <<cur>>
    ELSE IF Head(s) = sep THEN <<cur>> \o SplitFrom(Tail(s), sep, <<>>)
    ELSE SplitFrom(Tail(s), sep, Append(cur, Head(s)))

\* str.split(sep) for a one-character separator
split(s, sep) == SplitFrom(s, sep, <<>>)

RECURSIVE DecimalValue(_, _)
DecimalValue(tok, acc) ==
    IF tok = <<>> THEN acc
    ELSE DecimalValue(Tail(tok), acc * 10 + DigitValue(Head(tok)))

\* int(token) on a token of decimal digits; anything else raises ValueError
IsDecimal(tok) == tok # <<>> /\ \A i \in 1..Len(tok) : IsDigit(tok[i])

\* f"{n:02d}" for 0 <= n
Format02d(n) ==
    IF n < 10 THEN <<"0", Digits[n + 1]>>
    ELSE IF n < 100 THEN <<Digits[(n \div 10) + 1], Digits[(n % 10) + 1]>>
    ELSE <<Digits[(n \div 100) + 1], Digits[((n \div 10) % 10) + 1], Digits[(n % 10) + 1]>>

MaxHour == 23
MaxMinute == 59

time_to_string(t) == Format02d(t[1]) \o <<":">> \o Format02d(t[2])

Range(s) == {s[i] : i \in DOMAIN s}

LowerCase == <<"a", "b", "c", "d", "e", "f", "g", "h", "i", "j", "k", "l", "m", "n", "o", "p", "q", "r", "s", "t", "u", "v", "w", "x", "y", "z">>
UpperCase == <<"A", "B", "C", "D", "E", "F", "G", "H", "I", "J", "K", "L", "M", "N", "O", "P", "Q", "R", "S", "T", "U", "V", "W", "X", "Y", "Z">>
Whitespace == {" ", "\n", "\t", "\r"}

\* the characters \w matches (ASCII part)
WordChars == Range(LowerCase) \cup Range(UpperCase) \cup Range(Digits) \cup {"_"}

LowerChar(c) ==
    IF \E i \in 1..26 : UpperCase[i] = c
    THEN LowerCase[CHOOSE i \in 1..26 : UpperCase[i] = c]
    ELSE c

\* str.lower()
lower(s) == [i \in 1..Len(s) |-> LowerChar(s[i])]

\* str.strip()
strip(s) ==
    LET inside == {i \in 1..Len(s) : s[i] \notin Whitespace}
    IN  IF inside = {} THEN <<>>
        ELSE SubSeq(s, CHOOSE i \in inside : \A j \in inside : i <= j,
                       CHOOSE i \in inside : \A j \in inside : j <= i)

\* sep.join(parts)
RECURSIVE join(_, _)
join(parts, sep) ==
    IF parts = <<>> THEN <<>>
    ELSE IF Len(parts) = 1 THEN parts[1]
    ELSE parts[1] \o sep \o join(Tail(parts), sep)

(***************************************************************************)
(* The regular expressions of the extractor, matched on the characters.    *)
(* A position is an index into the text; 0 stands for "no match". Every    *)
(* repetition is followed by a character outside its class, so the greedy  *)
(* match is the only one and no backtracking is needed.                    *)
(***************************************************************************)
\* the first index from pos on whose character is not in set
RECURSIVE SkipChars(_, _, _)
SkipChars(text, pos, set) ==
    IF pos > Len(text) THEN pos
    ELSE IF text[pos] \in set THEN SkipChars(text, pos + 1, set)
    ELSE pos

\* the first index from pos on that holds a newline
RECURSIVE SkipToNewline(_, _)
SkipToNewline(text, pos) ==
    IF pos > Len(text) THEN pos
    ELSE IF text[pos] # "\n" THEN SkipToNewline(text, pos + 1)
    ELSE pos

\* a literal
Lit(text, pos, lit) ==
    IF pos = 0 \/ pos + Len(lit) - 1 > Len(text) THEN 0
    ELSE IF SubSeq(text, pos, pos + Len(lit) - 1) = lit THEN pos + Len(lit)
    ELSE 0

\* class+ and class*
OneOrMore(text, pos, set) ==
    IF pos = 0 THEN 0
    ELSE LET end == SkipChars(text, pos, set)
         IN  IF end > pos THEN end ELSE 0

ZeroOrMore(text, pos, set) == IF pos = 0 THEN 0 ELSE SkipChars(text, pos, set)

\* [^\n]+
RestOfLine(text, pos) ==
    IF pos = 0 THEN 0
    ELSE LET end == SkipToNewline(text, pos)
         IN  IF end > pos THEN end ELSE 0

\* \d{2}
TwoDigits(text, pos) ==
    IF pos = 0 \/ pos + 1 > Len(text) THEN 0
    ELSE IF IsDigit(text[pos]) /\ IsDigit(text[pos + 1]) THEN pos + 2
    ELSE 0

\* \d{2}:\d{2}
HourMinute(text, pos) == TwoDigits(text, Lit(text, TwoDigits(text, pos), <<":">>))

Chars_Jul == <<"J", "u", "l">>
Chars_2025 == <<"2", "0", "2", "5">>
Chars_Dash == <<" ", "-", " ">>
Chars_Dagelijks == <<"D", "a", "g", "e", "l", "i", "j", "k", "s">>

\* lines 102-105: where a match of
\* \w+,\s*\d{2}\s+Jul\s+2025\s+\d{2}:\d{2}\s+-\s+\d{2}:\d{2}\n[^\n]+
\* starting at pos ends (the index after it), or 0
ScheduleEntryEnd(text, pos) ==
    LET weekday == Lit(text, OneOrMore(text, pos, WordChars), <<",">>)
        date == TwoDigits(text, ZeroOrMore(text, weekday, Whitespace))
        month == Lit(text, OneOrMore(text, date, Whitespace), Chars_Jul)
        year == Lit(text, OneOrMore(text, month, Whitespace), Chars_2025)
        from == HourMinute(text, OneOrMore(text, year, Whitespace))
        dash == Lit(text, OneOrMore(text, from, Whitespace), <<"-">>)
        to == HourMinute(text, OneOrMore(text, dash, Whitespace))
    IN  RestOfLine(text, Lit(text, to, <<"\n">>))

\* lines 77-79, 125-127: where a match of \d{2}:\d{2} - \d{2}:\d{2} starting
\* at pos ends, or 0
TimeRangeEnd(text, pos) == HourMinute(text, Lit(text, HourMinute(text, pos), Chars_Dash))

\* re.findall of the schedule entry pattern: the matched texts, left to right,
\* not overlapping
RECURSIVE FindScheduleEntries(_, _)
FindScheduleEntries(text, pos) ==
    IF pos > Len(text) THEN <<>>
    ELSE LET end == ScheduleEntryEnd(text, pos)
         IN  IF end # 0
             THEN <<SubSeq(text, pos, end - 1)>> \o FindScheduleEntries(text, end)
             ELSE FindScheduleEntries(text, pos + 1)

\* re.findall of the time range pattern: the (start, end) groups
RECURSIVE FindTimeRanges(_, _)
FindTimeRanges(text, pos) ==
    IF pos > Len(text) THEN <<>>
    ELSE LET end == TimeRangeEnd(text, pos)
         IN  IF end # 0
             THEN <<<<SubSeq(text, pos, pos + 4), SubSeq(text, end - 5, end - 1)>>>>
                      \o FindTimeRanges(text, end)
             ELSE FindTimeRanges(text, pos + 1)

\* needle in text
Contains(text, needle) == \E pos \in 1..Len(text) : Lit(text, pos, needle) # 0

(***************************************************************************)
(* Lookup tables: a dict is the sequence of its (key, value) items in      *)
(* insertion order; assigning to a key that is present replaces its value  *)
(* in place.                                                               *)
(***************************************************************************)
DictKeys(d) == {d[i][1] : i \in 1..Len(d)}

DictGet(d, k) == d[CHOOSE i \in 1..Len(d) : d[i][1] = k][2]

DictPut(d, k, v) ==
    IF k \in DictKeys(d)
    THEN [i \in 1..Len(d) |-> IF d[i][1] = k THEN <<k, v>> ELSE d[i]]
    ELSE Append(d, <<k, v>>)

DictValues(d) == [i \in 1..Len(d) |-> d[i][2]]

RECURSIVE DictOf(_)
DictOf(items) ==
    IF items = <<>> THEN <<>>
    ELSE DictPut(DictOf(SubSeq(items, 1, Len(items) - 1)),
                 items[Len(items)][1], items[Len(items)][2])

(***************************************************************************)
(* compute_sort_key_from_time                                              *)
(***************************************************************************)
Returned(v) == [raised |-> "none", value |-> v]
Raised(e) == [raised |-> e, value |-> 0]

\* a plausible slip: noon itself pushed to the next day
compute_sort_key_noon_late(t) ==
    LET tokens == split(t, ":")
    IN  IF Len(tokens) # 2 THEN Raised("RuntimeError")
        ELSE IF ~IsDecimal(tokens[1]) \/ ~IsDecimal(tokens[2]) THEN Raised("ValueError")
        ELSE LET hours == DecimalValue(tokens[1], 0)
                 minutes == DecimalValue(tokens[2], 0)
                 shifted == IF hours <= 12 THEN hours + 24 ELSE hours
             IN  Returned((shifted - 12) * 60 + minutes)

compute_sort_key_from_time(t) ==
    LET tokens == split(t, ":")
    IN  IF Len(tokens) # 2 THEN Raised("RuntimeError")
        ELSE IF ~IsDecimal(tokens[1]) \/ ~IsDecimal(tokens[2]) THEN Raised("ValueError")
        ELSE LET hours == DecimalValue(tokens[1], 0)
                 minutes == DecimalValue(tokens[2], 0)
                 shifted == IF hours < 12 THEN hours + 24 ELSE hours
             IN  Returned((shifted - 12) * 60 + minutes)

(***************************************************************************)
(* The sort key on its own: a valid wall-clock time is formatted as        *)
(* "HH:MM" and its key computed.                                           *)
(***************************************************************************)
NoKey == Raised("unset")
NoSchedule == Raised("unset")

NoPage == [status |-> "none", text |-> <<>>]
NoResult == Raised("unset")

KeyIdle == clock = <<0, 0>> /\ time = <<>> /\ key = NoKey
AsmIdle == parsed_events = <<>> /\ schedule = NoSchedule
ExtIdle == page = NoPage /\ extracted = NoResult
AnnIdle == cursor = 1 /\ file = <<>> /\ loaded = NoSchedule
GatIdle ==
    /\ artist_links = <<>> /\ link_index = 1 /\ futures = <<>>
    /\ completed = <<>> /\ events = <<>>

InitKey ==
    /\ pc = "key"
    /\ clock \in (0..MaxHour) \X (0..MaxMinute)
    /\ time = time_to_string(clock)
    /\ key = NoKey
    /\ AsmIdle /\ ExtIdle /\ GatIdle /\ AnnIdle

ComputeSortKey ==
    /\ pc = "key"
    /\ key = NoKey
    /\ key' = compute_sort_key_from_time(time)
    /\ UNCHANGED <<pc, clock, time, notKeyVars>>

NextKey == ComputeSortKey

SpecKey == InitKey /\ [][NextKey]_vars

\* minutes since the most recent preceding 12:00 noon
MinutesSinceNoon(t) == (t[1] * 60 + t[2] + 720) % 1440

ValidClocks == (0..MaxHour) \X (0..MaxMinute)

\* C1: for every valid "HH:MM" the key is the number of minutes since the
\* most recent preceding noon, lies in 0..1439, orders any two valid times as
\* that quantity orders them (so distinct times get distinct keys), and is
\* 0, 719, 720, 1439 at 12:00, 23:59, 00:00, 11:59.
C1_SortKeyIsMinutesSinceNoon ==
    (pc = "key" /\ key # NoKey) =>
        /\ key.raised = "none"
        /\ key.value = MinutesSinceNoon(clock)
        /\ key.value = ((IF clock[1] < 12 THEN clock[1] + 24 ELSE clock[1]) - 12) * 60 + clock[2]
        /\ key.value \in 0..1439
        /\ \A other \in ValidClocks :
              LET k2 == compute_sort_key_from_time(time_to_string(other))
              IN  /\ k2.raised = "none"
                  /\ (MinutesSinceNoon(other) < MinutesSinceNoon(clock)) <=> (k2.value < key.value)
                  /\ (other # clock) => (k2.value # key.value)
        /\ (clock = <<12, 0>>) => key.value = 0
        /\ (clock = <<23, 59>>) => key.value = 719
        /\ (clock = <<0, 0>>) => key.value = 720
        /\ (clock = <<11, 59>>) => key.value = 1439

C1_Witness ==
    /\ pc = "key"
    /\ time = <<"0", "0", ":", "0", "0">>
    /\ key = Returned(720)

(***************************************************************************)
(* Reference data of parse_dtrh2025.main, cut down to two days and two     *)
(* stages (the stage of the daily acts among them).                        *)
(***************************************************************************)
Chars_Hotot == <<"H", "o", "t", "o", "t">>
Chars_Croque == <<"t", "h", "e", " ", "C", "R", "O", "Q", "U", "E", " ", "M", "a", "d", "a", "m", "e">>
Chars_vrijdag == <<"v", "r", "i", "j", "d", "a", "g">>
Chars_zaterdag == <<"z", "a", "t", "e", "r", "d", "a", "g">>

Stage(id, name, colour) == [cls |-> "Stage", id |-> id, name |-> name, colour |-> colour]

Day(id, dutch_name, name, date) ==
    [cls |-> "Day", id |-> id, dutch_name |-> dutch_name, name |-> name, date |-> date]

BlockHeightConfig(coords, pixels) ==
    [cls |-> "BlockHeightConfig", coords |-> coords, pixels |-> pixels]

ScheduleConfig(blockHeight) == [cls |-> "ScheduleConfig", blockHeight |-> blockHeight]

Event(start, end, name, url) ==
    [cls |-> "Event", start |-> start, end |-> end, name |-> name, url |-> url]

ParsedEvent(day_id, stage_id, start, end, name, url) ==
    [cls |-> "ParsedEvent", day_id |-> day_id, stage_id |-> stage_id,
     start |-> start, end |-> end, name |-> name, url |-> url]

DaySchedule(id, name, date, day_events) ==
    [cls |-> "DaySchedule", id |-> id, name |-> name, date |-> date, events |-> day_events]

Schedule(cfg, stgs, day_schedules) ==
    [cls |-> "Schedule", config |-> cfg, stages |-> stgs, schedule |-> day_schedules]

config == ScheduleConfig(BlockHeightConfig(30, 100))

stages == <<
    Stage("hotot", Chars_Hotot, "#e41a1c"),
    Stage("croque-madame", Chars_Croque, "#a65628") >>

days == <<
    Day("friday", Chars_vrijdag, "Friday", "2025-07-04"),
    Day("saturday", Chars_zaterdag, "Saturday", "2025-07-05") >>

(***************************************************************************)
(* sorted(iterable, key=...): Python's sort is stable and ascending, so    *)
(* the element at input index i lands after every element with a smaller   *)
(* key and after every earlier element with an equal key. less[i][j] says  *)
(* whether the key of s[i] is smaller than the key of s[j].                *)
(***************************************************************************)
StableSort(s, less) ==
    LET n == Len(s)
        rank(i) == 1 + Cardinality({j \in 1..n :
                        \/ less[j][i]
                        \/ (~less[i][j] /\ j < i)})
    IN  [p \in 1..n |-> s[CHOOSE i \in 1..n : rank(i) = p]]

\* Python's < on two strings: by the first differing character, else by length
CharOrder == <<" ", "0", "1", "2", "3", "4", "5", "6", "7", "8", "9", ":">>
CharRank(c) == CHOOSE i \in 1..Len(CharOrder) : CharOrder[i] = c

RECURSIVE StrLess(_, _)
StrLess(a, b) ==
    IF b = <<>> THEN FALSE
    ELSE IF a = <<>> THEN TRUE
    ELSE IF Head(a) = Head(b) THEN StrLess(Tail(a), Tail(b))
    ELSE CharRank(Head(a)) < CharRank(Head(b))

\* key=lambda event: compute_sort_key_from_time(event.start)
SortKeyLess(s) ==
    LET keys == [i \in 1..Len(s) |-> compute_sort_key_from_time(s[i].start).value]
    IN  [i \in 1..Len(s) |-> [j \in 1..Len(s) |-> keys[i] < keys[j]]]

\* key=lambda event: event.start
StartTextLess(s) ==
    [i \in 1..Len(s) |-> [j \in 1..Len(s) |-> StrLess(s[i].start, s[j].start)]]

(***************************************************************************)
(* convert_events_to_schedule                                              *)
(***************************************************************************)
\* a plausible slip: the bucket ordered as Schedule.add_event orders it, by
\* the start text instead of the noon-based key
bucket_sorted_by_text(parsed, day, stage) ==
    LET matching == SelectSeq(parsed, LAMBDA event :
                        event.day_id = day.id /\ event.stage_id = stage.id)
        ordered == StableSort(matching, StartTextLess(matching))
    IN  [i \in 1..Len(ordered) |->
            Event(ordered[i].start, ordered[i].end, ordered[i].name, ordered[i].url)]

\* a plausible slip: an event filed under every stage of its day
bucket_ignoring_stage(parsed, day, stage) ==
    LET matching == SelectSeq(parsed, LAMBDA event : event.day_id = day.id)
        ordered == StableSort(matching, SortKeyLess(matching))
    IN  [i \in 1..Len(ordered) |->
            Event(ordered[i].start, ordered[i].end, ordered[i].name, ordered[i].url)]

\* lines 226-240: one bucket, filtered, sorted and mapped to Event
bucket_of(parsed, day, stage) ==
    LET matching == SelectSeq(parsed, LAMBDA event :
                        event.day_id = day.id /\ event.stage_id = stage.id)
        ordered == StableSort(matching, SortKeyLess(matching))
    IN  [i \in 1..Len(ordered) |->
            Event(ordered[i].start, ordered[i].end, ordered[i].name, ordered[i].url)]

\* a plausible slip: stages without events left out of the day's dict
day_events_nonempty_only(parsed, day, stgs) ==
    LET ids == {stgs[k].id : k \in {k \in 1..Len(stgs) : bucket_of(parsed, day, stgs[k]) # <<>>}}
    IN  [id \in ids |->
            LET last == CHOOSE k \in 1..Len(stgs) :
                            /\ stgs[k].id = id
                            /\ \A m \in (k + 1)..Len(stgs) : stgs[m].id # id
            IN  bucket_of(parsed, day, stgs[last])]

\* lines 222-240: the dict stage.id -> bucket; a later stage with the same id
\* overwrites an earlier one
day_events_of(parsed, day, stgs) ==
    LET ids == {stgs[k].id : k \in 1..Len(stgs)}
    IN  [id \in ids |->
            LET last == CHOOSE k \in 1..Len(stgs) :
                            /\ stgs[k].id = id
                            /\ \A m \in (k + 1)..Len(stgs) : stgs[m].id # id
            IN  bucket_of(parsed, day, stgs[last])]

\* a sort key that cannot be computed aborts the whole conversion
sort_key_failure(parsed) ==
    LET bad == {i \in 1..Len(parsed) : compute_sort_key_from_time(parsed[i].start).raised # "none"}
    IN  IF bad = {} THEN "none"
        ELSE compute_sort_key_from_time(parsed[CHOOSE i \in bad : \A j \in bad : i <= j].start).raised

convert_events_to_schedule(parsed, cfg, dys, stgs) ==
    IF sort_key_failure(parsed) # "none" THEN Raised(sort_key_failure(parsed))
    ELSE Returned(Schedule(cfg, stgs,
            [d \in 1..Len(dys) |->
                DaySchedule(dys[d].id, dys[d].name, dys[d].date,
                            day_events_of(parsed, dys[d], stgs))]))

\* line 149
stage_name_to_id == DictOf([k \in 1..Len(stages) |-> <<stages[k].name, stages[k].id>>])

\* line 150
day_dutch_name_to_id == DictOf([d \in 1..Len(days) |-> <<days[d].dutch_name, days[d].id>>])

(***************************************************************************)
(* gather_special_croque_madame_events                                     *)
(***************************************************************************)
\* a plausible slip: the loops nested the other way round
croque_madame_events_by_pair(metadata, name, url, day_ids) ==
    LET matches == FindTimeRanges(metadata, 1)
        ids == DictValues(day_ids)
        m == Len(matches)
    IN  [n \in 1..(Len(ids) * m) |->
            ParsedEvent(ids[((n - 1) % Len(ids)) + 1], "croque-madame",
                        matches[((n - 1) \div Len(ids)) + 1][1],
                        matches[((n - 1) \div Len(ids)) + 1][2], name, url)]

\* for every day id, in the order of the table, one event per time range
gather_special_croque_madame_events(metadata, name, url, day_ids) ==
    LET matches == FindTimeRanges(metadata, 1)
        ids == DictValues(day_ids)
        m == Len(matches)
    IN  [n \in 1..(Len(ids) * m) |->
            ParsedEvent(ids[((n - 1) \div m) + 1], "croque-madame",
                        matches[((n - 1) % m) + 1][1],
                        matches[((n - 1) % m) + 1][2], name, url)]

(***************************************************************************)
(* gather_events_from_artist_page                                          *)
(***************************************************************************)
\* a plausible slip: the weekday looked up as scraped, without lower()
entry_event_case_kept(match, name, url, stage_ids, day_ids) ==
    LET parts == split(match, "\n")
    IN  IF Len(parts) # 2 THEN Raised("ValueError")
        ELSE LET raw_datetime == parts[1]
                 stage == parts[2]
                 day == split(raw_datetime, ",")[1]
                 times == FindTimeRanges(raw_datetime, 1)
             IN  IF strip(stage) \notin DictKeys(stage_ids) THEN Raised("KeyError")
                 ELSE IF strip(day) \notin DictKeys(day_ids) THEN Raised("KeyError")
                 ELSE IF times = <<>> THEN Raised("ValueError")
                 ELSE Returned(ParsedEvent(DictGet(day_ids, strip(day)),
                                           DictGet(stage_ids, strip(stage)),
                                           times[1][1], times[1][2], name, url))

\* lines 119-133 for one match: the event, or the exception raised
entry_event(match, name, url, stage_ids, day_ids) ==
    LET parts == split(match, "\n")
    IN  IF Len(parts) # 2 THEN Raised("ValueError")
        ELSE LET raw_datetime == parts[1]
                 stage == parts[2]
                 day == lower(split(raw_datetime, ",")[1])
                 times == FindTimeRanges(raw_datetime, 1)
             IN  IF strip(stage) \notin DictKeys(stage_ids) THEN Raised("KeyError")
                 ELSE IF strip(day) \notin DictKeys(day_ids) THEN Raised("KeyError")
                 ELSE IF times = <<>> THEN Raised("ValueError")
                 ELSE Returned(ParsedEvent(DictGet(day_ids, strip(day)),
                                           DictGet(stage_ids, strip(stage)),
                                           times[1][1], times[1][2], name, url))

\* lines 117-134: the events of all matches, or the first exception
primary_events(matches, name, url, stage_ids, day_ids) ==
    LET each == [i \in 1..Len(matches) |->
                    entry_event(matches[i], name, url, stage_ids, day_ids)]
        failed == {i \in 1..Len(matches) : each[i].raised # "none"}
    IN  IF failed = {} THEN Returned([i \in 1..Len(matches) |-> each[i].value])
        ELSE Raised(each[CHOOSE i \in failed : \A j \in failed : i <= j].raised)

\* the page is what requests.get(url) gave: a connection error, or a
\* document with or without a <div class="border"> whose text is page.text
gather_events_from_artist_page(name, url, stage_ids, day_ids, response) ==
    IF response.status = "unreachable" THEN Raised("ConnectionError")
    ELSE IF response.status = "no-div" THEN Raised("RuntimeError")
    ELSE LET metadata == response.text
             matches == FindScheduleEntries(metadata, 1)
         IN  IF Len(matches) = 0
             THEN IF Contains(metadata, Chars_Dagelijks)
                  THEN Returned(gather_special_croque_madame_events(metadata, name, url, day_ids))
                  ELSE Raised("RuntimeError")
             ELSE primary_events(matches, name, url, stage_ids, day_ids)

(***************************************************************************)
(* The assembler on its own: any list of up to MaxEvents parsed events     *)
(* whose day and stage ids are ids of the reference data.                  *)
(***************************************************************************)
MaxEvents == 3

T(h, m) == time_to_string(<<h, m>>)

UrlOf(name) == <<"https://downtherabbithole.nl/programma/", name>>

\* name, start, end (the times as the extractor's \d{2}:\d{2} groups deliver
\* them): two acts with the same start, and one after midnight
Performances == {
    <<"X", T(13, 0), T(14, 0)>>,
    <<"Y", T(13, 0), T(13, 45)>>,
    <<"Y", T(1, 0), T(2, 0)>> }

ParsedEventPool ==
    {ParsedEvent(days[d].id, stages[s].id, p[2], p[3], p[1], UrlOf(p[1])) :
        d \in 1..Len(days), s \in 1..Len(stages), p \in Performances}

SeqsUpTo(S, n) == UNION {[1..k -> S] : k \in 0..n}

InitAssemble ==
    /\ pc = "convert"
    /\ parsed_events \in SeqsUpTo(ParsedEventPool, MaxEvents)
    /\ schedule = NoSchedule
    /\ KeyIdle /\ ExtIdle /\ GatIdle /\ AnnIdle

Convert ==
    /\ pc = "convert"
    /\ schedule' = convert_events_to_schedule(parsed_events, config, days, stages)
    /\ pc' = "converted"
    /\ UNCHANGED <<parsed_events, notAsmVars>>

NextAssemble == Convert

SpecAssemble == InitAssemble /\ [][NextAssemble]_vars

Assembled == pc = "converted" /\ schedule.raised = "none"

Buckets == {<<d, id>> : d \in 1..Len(schedule.value.schedule), id \in {stages[k].id : k \in 1..Len(stages)}}

BucketAt(b) == schedule.value.schedule[b[1]].events[b[2]]

KeyOfStart(e) == compute_sort_key_from_time(e.start).value

HourOfStart(e) == DecimalValue(split(e.start, ":")[1], 0)

AsEvent(parsed) == Event(parsed.start, parsed.end, parsed.name, parsed.url)

\* the input events of one day and stage, in input order, as Event objects
InputOf(d, id) ==
    LET matching == SelectSeq(parsed_events, LAMBDA e : e.day_id = days[d].id /\ e.stage_id = id)
    IN  [i \in 1..Len(matching) |-> AsEvent(matching[i])]

Count(s, x) == Cardinality({i \in 1..Len(s) : s[i] = x})

\* C2: every bucket is in ascending order of the noon-based key of the start
\* time, so a start before 12:00 comes after every start at or after 12:00,
\* and events with the same key keep the order they had in the input list.
C2_BucketsSortedByNoonKey ==
    Assembled =>
        \A b \in Buckets :
            LET bucket == BucketAt(b)
            IN  /\ \A i, j \in 1..Len(bucket) :
                      i < j => KeyOfStart(bucket[i]) <= KeyOfStart(bucket[j])
                /\ \A i, j \in 1..Len(bucket) :
                      (HourOfStart(bucket[i]) < 12 /\ HourOfStart(bucket[j]) >= 12) => j < i
                /\ \A k \in {KeyOfStart(bucket[i]) : i \in 1..Len(bucket)} :
                      SelectSeq(bucket, LAMBDA e : KeyOfStart(e) = k)
                          = SelectSeq(InputOf(b[1], b[2]), LAMBDA e : KeyOfStart(e) = k)

\* Friday / first stage given "Y" at 01:00 before "X" at 13:00 and "Y" at 13:00
\* comes out as X 13:00, Y 13:00, Y 01:00
C2_Witness ==
    /\ Assembled
    /\ Len(parsed_events) = 3
    /\ \A i \in 1..3 : parsed_events[i].day_id = "friday" /\ parsed_events[i].stage_id = "hotot"
    /\ parsed_events[1].start = T(1, 0)
    /\ parsed_events[2].name = "X" /\ parsed_events[2].start = T(13, 0)
    /\ parsed_events[3].name = "Y" /\ parsed_events[3].start = T(13, 0)
    /\ BucketAt(<<1, "hotot">>) =
          <<AsEvent(parsed_events[2]), AsEvent(parsed_events[3]), AsEvent(parsed_events[1])>>

\* C3: the schedule has one DaySchedule per day, in the order of the days
\* list, each with one bucket per stage (empty ones included), so
\* len(days) * len(stages) buckets in all, and it keeps the full stages list.
C3_EveryDayAndStageHasABucket ==
    Assembled =>
        LET out == schedule.value
        IN  /\ Len(out.schedule) = Len(days)
            /\ \A d \in 1..Len(days) :
                  /\ out.schedule[d].id = days[d].id
                  /\ out.schedule[d].name = days[d].name
                  /\ out.schedule[d].date = days[d].date
                  /\ DOMAIN out.schedule[d].events = {stages[k].id : k \in 1..Len(stages)}
            /\ Cardinality({<<d, id>> : d \in 1..Len(out.schedule),
                                        id \in UNION {DOMAIN out.schedule[d].events : d \in 1..Len(out.schedule)}})
                  = Len(days) * Len(stages)
            /\ \A d \in 1..Len(out.schedule) :
                  Cardinality(DOMAIN out.schedule[d].events) = Len(stages)
            /\ out.stages = stages

\* the empty input, and an input that leaves every bucket but one empty
C3_Witness ==
    /\ Assembled
    /\ Len(parsed_events) = 1
    /\ Cardinality({b \in Buckets : BucketAt(b) = <<>>}) = Len(days) * Len(stages) - 1

\* C4: the buckets partition the input: each bucket holds exactly the input
\* events of its own day and stage (as many copies as the input has), with
\* start, end, name and url unchanged, and the bucket sizes add up to the
\* number of input events.
RECURSIVE TotalEvents(_)
TotalEvents(bs) ==
    IF bs = {} THEN 0
    ELSE LET b == CHOOSE x \in bs : TRUE
         IN  Len(BucketAt(b)) + TotalEvents(bs \ {b})

C4_BucketsPartitionTheInput ==
    Assembled =>
        /\ \A b \in Buckets :
              /\ Len(BucketAt(b)) = Len(InputOf(b[1], b[2]))
              /\ \A ev \in Range(BucketAt(b)) \cup Range(InputOf(b[1], b[2])) :
                    Count(BucketAt(b), ev) = Count(InputOf(b[1], b[2]), ev)
        /\ \A i \in 1..Len(parsed_events) :
              Cardinality({b \in Buckets :
                  /\ days[b[1]].id = parsed_events[i].day_id
                  /\ b[2] = parsed_events[i].stage_id
                  /\ AsEvent(parsed_events[i]) \in Range(BucketAt(b))}) = 1
        /\ TotalEvents(Buckets) = Len(parsed_events)

\* the same act on two days and on two stages: three buckets of one event
C4_Witness ==
    /\ Assembled
    /\ Len(parsed_events) = 3
    /\ \A i \in 1..3 : parsed_events[i].name = "X" /\ parsed_events[i].start = T(13, 0)
    /\ Cardinality({b \in Buckets : Len(BucketAt(b)) = 1}) = 3

(***************************************************************************)
(* The extractor on its own: the metadata text is up to MaxFragments       *)
(* fragments joined by newlines.                                           *)
(***************************************************************************)
MaxFragments == 3

Chars_JulDate == <<",", " ", "0", "4", " ", "J", "u", "l", " ", "2", "0", "2", "5", " ">>
Chars_WideDash == <<" ", " ", "-", " ", " ">>

ScheduleLine(weekday, start, dash, end) == weekday \o Chars_JulDate \o start \o dash \o end

Chars_Vrijdag == <<"V", "r", "i", "j", "d", "a", "g">>
Chars_maandag == <<"m", "a", "a", "n", "d", "a", "g">>
Chars_hotot == <<"h", "o", "t", "o", "t">>

Fragments == {
    \* a capitalised weekday, a stage
    ScheduleLine(Chars_Vrijdag, T(13, 0), Chars_Dash, T(14, 0)) \o <<"\n">> \o Chars_Hotot,
    \* a stage with blanks around it
    ScheduleLine(Chars_zaterdag, T(1, 0), Chars_Dash, T(2, 0)) \o <<"\n", " ">> \o Chars_Croque \o <<" ">>,
    \* a weekday that is no festival day
    ScheduleLine(Chars_maandag, T(13, 0), Chars_Dash, T(14, 0)) \o <<"\n">> \o Chars_Hotot,
    \* a stage name in the wrong case
    ScheduleLine(Chars_vrijdag, T(20, 0), Chars_Dash, T(21, 0)) \o <<"\n">> \o Chars_hotot,
    \* two blanks around the dash
    ScheduleLine(Chars_zaterdag, T(13, 0), Chars_WideDash, T(14, 0)) \o <<"\n">> \o Chars_Hotot,
    \* a schedule line with nothing after it
    ScheduleLine(Chars_vrijdag, T(22, 0), Chars_Dash, T(23, 0)),
    \* the daily marker and two time ranges
    Chars_Dagelijks,
    T(14, 0) \o Chars_Dash \o T(15, 0),
    T(20, 0) \o Chars_Dash \o T(21, 30) }

ArtistName == "X"
ArtistUrl == UrlOf("X")

Responses ==
    {[status |-> "unreachable", text |-> <<>>], [status |-> "no-div", text |-> <<>>]}
    \cup {[status |-> "ok", text |-> join(fs, <<"\n">>)] : fs \in SeqsUpTo(Fragments, MaxFragments)}

InitExtract ==
    /\ pc = "extract"
    /\ page \in Responses
    /\ extracted = NoResult
    /\ KeyIdle /\ AsmIdle /\ GatIdle /\ AnnIdle

Extract ==
    /\ pc = "extract"
    /\ extracted' = gather_events_from_artist_page(ArtistName, ArtistUrl,
                        stage_name_to_id, day_dutch_name_to_id, page)
    /\ pc' = "extracted"
    /\ UNCHANGED <<page, notExtVars>>

NextExtract == Extract

SpecExtract == InitExtract /\ [][NextExtract]_vars

Extracted == pc = "extracted" /\ page.status = "ok"

ScheduleEntries == FindScheduleEntries(page.text, 1)

\* the weekday and the stage text of a matched schedule entry, as scraped
WeekdayText(match) == split(split(match, "\n")[1], ",")[1]
StageText(match) == split(match, "\n")[2]

\* C8 as stated: the weekday is looked up with its case preserved, so a
\* page with a weekday or stage text that is absent from its table in that
\* form fails.
C8_WeekdayCasePreserved ==
    Extracted =>
        LET entries == ScheduleEntries
        IN  (/\ entries # <<>>
             /\ \E i \in 1..Len(entries) :
                    \/ strip(WeekdayText(entries[i])) \notin DictKeys(day_dutch_name_to_id)
                    \/ strip(StageText(entries[i])) \notin DictKeys(stage_name_to_id))
            => extracted.raised # "none"

DayKnown(match) == strip(lower(WeekdayText(match))) \in DictKeys(day_dutch_name_to_id)
StageKnown(match) == strip(StageText(match)) \in DictKeys(stage_name_to_id)

\* C8, amended: on the primary path the weekday text is lowercased and
\* trimmed before it is looked up in the day table, the stage text is looked
\* up by exact trimmed match; a page with a weekday (lowercased) or stage text
\* absent from its table fails and yields no event, and a page whose entries
\* are all known (and carry a time range) yields one event per entry with the
\* ids the tables give.
C8_WeekdayLoweredStageExact ==
    Extracted =>
        LET entries == ScheduleEntries
        IN  entries # <<>> =>
            /\ (\E i \in 1..Len(entries) : ~DayKnown(entries[i]) \/ ~StageKnown(entries[i]))
                => extracted \in {Raised("KeyError"), Raised("ValueError")}
            /\ (\A i \in 1..Len(entries) :
                    /\ DayKnown(entries[i]) /\ StageKnown(entries[i])
                    /\ FindTimeRanges(split(entries[i], "\n")[1], 1) # <<>>)
                => extracted.raised = "none"
            /\ extracted.raised = "none" =>
                /\ Len(extracted.value) = Len(entries)
                /\ \A i \in 1..Len(entries) :
                      /\ extracted.value[i].day_id =
                            DictGet(day_dutch_name_to_id, strip(lower(WeekdayText(entries[i]))))
                      /\ extracted.value[i].stage_id =
                            DictGet(stage_name_to_id, strip(StageText(entries[i])))

\* "Vrijdag" finds friday, " the CROQUE Madame " finds croque-madame
C8_Witness ==
    /\ Extracted
    /\ Len(ScheduleEntries) = 2
    /\ WeekdayText(ScheduleEntries[1]) = Chars_Vrijdag
    /\ StageText(ScheduleEntries[2]) = <<" ">> \o Chars_Croque \o <<" ">>
    /\ extracted.raised = "none"
    /\ extracted.value[1].day_id = "friday"
    /\ extracted.value[2].stage_id = "croque-madame"

DailyTimeRanges == FindTimeRanges(page.text, 1)

\* C9: with no schedule entry and the daily marker in the metadata, the
\* extraction returns len(days) * (number of time ranges) events: for each
\* day in turn one event per time range, with that range's start and end,
\* the stage id "croque-madame" and the page's name and url.
C9_DailyActOnEveryDay ==
    (Extracted /\ Contains(page.text, Chars_Dagelijks)) =>
        LET ranges == DailyTimeRanges
        IN  ScheduleEntries = <<>> =>
            /\ extracted.raised = "none"
            /\ Len(extracted.value) = Len(days) * Len(ranges)
            /\ \A d \in 1..Len(days) : \A k \in 1..Len(ranges) :
                  extracted.value[(d - 1) * Len(ranges) + k] =
                      ParsedEvent(days[d].id, "croque-madame", ranges[k][1], ranges[k][2],
                                  ArtistName, ArtistUrl)

\* the marker and two time ranges: len(days) * 2 events
C9_Witness ==
    /\ Extracted
    /\ ScheduleEntries = <<>>
    /\ Contains(page.text, Chars_Dagelijks)
    /\ DailyTimeRanges = << <<T(14, 0), T(15, 0)>>, <<T(20, 0), T(21, 30)>> >>
    /\ extracted.raised = "none"
    /\ Len(extracted.value) = Len(days) * 2

(***************************************************************************)
(* gather_events: the submission loop, the worker threads of the pool and  *)
(* the as_completed loop.                                                  *)
(***************************************************************************)
MaxLinks == 3

\* the pool size main passes is 10; the model runs a smaller pool so that
\* tasks do wait for a free worker
max_num_workers == 2

\* the value of link.attrs[...]: absent, a list (a multi-valued attribute) or
\* a string
Missing == [kind |-> "missing", val |-> ""]
ListValue == [kind |-> "list", val |-> ""]
Str(v) == [kind |-> "str", val |-> v]

Link(title, href) == [title |-> title, href |-> href]

Url_A == "https://downtherabbithole.nl/programma/a"
Url_B == "https://downtherabbithole.nl/programma/b"
Url_C == "https://downtherabbithole.nl/programma/c"

\* what the site serves: a page with two schedule entries, a page whose stage
\* is in no table, a daily act without any time range, and nothing elsewhere
Web(url) ==
    IF url = Url_A THEN
        [status |-> "ok",
         text |-> ScheduleLine(Chars_Vrijdag, T(13, 0), Chars_Dash, T(14, 0)) \o <<"\n">> \o Chars_Hotot
                  \o <<"\n">> \o ScheduleLine(Chars_zaterdag, T(1, 0), Chars_Dash, T(2, 0))
                  \o <<"\n">> \o Chars_Croque]
    ELSE IF url = Url_B THEN
        [status |-> "ok",
         text |-> ScheduleLine(Chars_vrijdag, T(20, 0), Chars_Dash, T(21, 0)) \o <<"\n">> \o Chars_hotot]
    ELSE IF url = Url_C THEN [status |-> "ok", text |-> Chars_Dagelijks]
    ELSE [status |-> "unreachable", text |-> <<>>]

LinkPool == {
    Link(Str("A"), Str(Url_A)),
    Link(Str("B"), Str(Url_B)),
    Link(Str("C"), Str(Url_C)),
    Link(Missing, Str(Url_A)),
    Link(Str("A"), Missing),
    Link(ListValue, Str(Url_A)),
    Link(Str("B"), Str("")),
    Link(Str(""), Str(Url_A)) }

\* lines 164-167: "raise" (KeyError of attrs[...]), "skip" (continue) or
\* "submit"
link_action(link) ==
    IF link.title.kind = "missing" THEN "raise"
    ELSE IF link.href.kind = "missing" THEN "raise"
    ELSE IF link.title.kind # "str" \/ link.href.kind # "str" \/ link.href.val = "" THEN "skip"
    ELSE "submit"

\* a plausible slip: future.result() outside the try block
collect_result_uncaught(outcome, list) ==
    IF outcome.raised # "none" THEN [raised |-> TRUE, events |-> list]
    ELSE IF Len(outcome.value) > 0 THEN [raised |-> FALSE, events |-> list \o outcome.value]
    ELSE [raised |-> FALSE, events |-> list]

\* lines 184-197 for one completed future: the list after it, and whether an
\* exception leaves the loop
collect_result(outcome, list) ==
    IF outcome.raised # "none" THEN [raised |-> FALSE, events |-> list]
    ELSE IF Len(outcome.value) > 0 THEN [raised |-> FALSE, events |-> list \o outcome.value]
    ELSE [raised |-> FALSE, events |-> list]

\* what the task submitted for (name, url) ends with: the function is pure,
\* so its results for the links of the pool are tabulated once
TaskOutcome ==
    [task \in {<<l.title.val, l.href.val>> : l \in LinkPool} |->
        gather_events_from_artist_page(task[1], task[2],
            stage_name_to_id, day_dutch_name_to_id, Web(task[2]))]

Future(link, name, url) ==
    [link |-> link, name |-> name, url |-> url, state |-> "pending", outcome |-> NoResult]

InitGather ==
    /\ pc = "submit"
    /\ artist_links \in SeqsUpTo(LinkPool, MaxLinks)
    /\ link_index = 1
    /\ futures = <<>>
    /\ completed = <<>>
    /\ events = <<>>
    /\ KeyIdle /\ AsmIdle /\ ExtIdle /\ AnnIdle

\* lines 161-176: one iteration of the submission loop
SubmitLink ==
    /\ pc = "submit"
    /\ link_index <= Len(artist_links)
    /\ LET link == artist_links[link_index]
           action == link_action(link)
       IN  /\ pc' = IF action = "raise" THEN "raised" ELSE "submit"
           /\ futures' = IF action = "submit"
                         THEN Append(futures, Future(link_index, link.title.val, link.href.val))
                         ELSE futures
           /\ link_index' = IF action = "raise" THEN link_index ELSE link_index + 1
    /\ UNCHANGED <<artist_links, completed, events, notGatVars>>

\* lines 178-180: all links seen, the main thread turns to the results
AllSubmitted ==
    /\ pc = "submit"
    /\ link_index > Len(artist_links)
    /\ pc' = "collect"
    /\ UNCHANGED <<gatVars, notGatVars>>

Running == {f \in 1..Len(futures) : futures[f].state = "running"}
Pending == {f \in 1..Len(futures) : futures[f].state = "pending"}

\* a free worker thread takes the oldest queued task
WorkerStart ==
    /\ pc \in {"submit", "collect", "raised"}
    /\ Pending # {}
    /\ Cardinality(Running) < max_num_workers
    /\ LET f == CHOOSE f \in Pending : \A g \in Pending : f <= g
       IN  futures' = [futures EXCEPT ![f].state = "running"]
    /\ UNCHANGED <<pc, artist_links, link_index, completed, events, notGatVars>>

\* a worker thread ends its task: the future holds the result or the exception
WorkerFinish(f) ==
    /\ pc \in {"submit", "collect", "raised"}
    /\ futures[f].state = "running"
    /\ futures' = [futures EXCEPT
            ![f].state = "finished",
            ![f].outcome = TaskOutcome[<<futures[f].name, futures[f].url>>]]
    /\ UNCHANGED <<pc, artist_links, link_index, completed, events, notGatVars>>

\* lines 180-197: as_completed yields a finished future that it has not
\* yielded before, whichever it is
Collect(f) ==
    /\ pc = "collect"
    /\ futures[f].state = "finished"
    /\ f \notin Range(completed)
    /\ LET after == collect_result(futures[f].outcome, events)
       IN  /\ events' = after.events
           /\ pc' = IF after.raised THEN "raised" ELSE "collect"
    /\ completed' = Append(completed, f)
    /\ UNCHANGED <<artist_links, link_index, futures, notGatVars>>

\* line 199
ReturnEvents ==
    /\ pc = "collect"
    /\ Len(completed) = Len(futures)
    /\ pc' = "done"
    /\ UNCHANGED <<gatVars, notGatVars>>

NextGather ==
    \/ SubmitLink
    \/ AllSubmitted
    \/ WorkerStart
    \/ \E f \in 1..Len(futures) : WorkerFinish(f)
    \/ \E f \in 1..Len(futures) : Collect(f)
    \/ ReturnEvents

SpecGather == InitGather /\ [][NextGather]_vars

RECURSIVE Concat(_)
Concat(seqs) == IF seqs = <<>> THEN <<>> ELSE Head(seqs) \o Concat(Tail(seqs))

Succeeded(f) == futures[f].outcome.raised = "none"

\* C5: whatever pages fail and in whatever order the tasks complete, the
\* events collected so far are exactly the events of the successful pages
\* yielded so far, page by page; gather_events raises only in the submission
\* loop, never because a task failed; while it collects it can always go on;
\* and when it returns every future has been yielded once, so the list holds
\* the events of every successful page and none of a failed one.
C5_PageFailuresAreIsolated ==
    /\ pc \in {"collect", "done"} =>
          /\ events = Concat([i \in 1..Len(completed) |->
                          IF Succeeded(completed[i]) THEN futures[completed[i]].outcome.value
                          ELSE <<>>])
          /\ \A e \in Range(events) :
                \E f \in Range(completed) : Succeeded(f) /\ e \in Range(futures[f].outcome.value)
    /\ pc = "raised" =>
          /\ link_index <= Len(artist_links)
          /\ link_action(artist_links[link_index]) = "raise"
    /\ pc = "collect" => ENABLED NextGather
    /\ pc = "done" =>
          /\ Len(completed) = Len(futures)
          /\ Range(completed) = 1..Len(futures)
          /\ \A f \in 1..Len(futures) : futures[f].state = "finished"
          /\ Len(events) = Len(Concat([f \in 1..Len(futures) |->
                          IF Succeeded(f) THEN futures[f].outcome.value ELSE <<>>]))

\* three pages, the first one fails and is yielded last, the other two are
\* yielded in the reverse of their submission
C5_Witness ==
    /\ pc = "done"
    /\ Len(futures) = 3
    /\ futures[1].url = Url_B /\ ~Succeeded(1)
    /\ futures[2].url = Url_A /\ futures[2].name = "A"
    /\ futures[3].url = Url_A /\ futures[3].name = ""
    /\ completed = <<3, 2, 1>>
    /\ events = futures[3].outcome.value \o futures[2].outcome.value
    /\ Len(events) = 4

LinkIsValid(link) ==
    /\ link.title.kind = "str" /\ link.title.val # ""
    /\ link.href.kind = "str" /\ link.href.val # ""

\* the indices of the valid links among the first n
ValidLinksUpTo(n) ==
    LET valid == {i \in 1..n : LinkIsValid(artist_links[i])}
        rank(i) == Cardinality({j \in valid : j <= i})
    IN  [k \in 1..Cardinality(valid) |-> CHOOSE i \in valid : rank(i) = k]

\* C7: a link whose title or href is missing, not a string or empty is
\* skipped: gather_events does not raise because of it, no task is submitted
\* for it, and a task is submitted for every other link.
C7_InvalidLinksAreSkipped ==
    /\ pc # "raised"
    /\ pc \in {"submit", "collect", "done"} =>
          [f \in 1..Len(futures) |-> futures[f].link] = ValidLinksUpTo(link_index - 1)

(***************************************************************************)
(* scaffold_bks2026: the persisted schedule and its interactive            *)
(* annotation. Reference data of its main, cut down to two days and two    *)
(* stages.                                                                 *)
(***************************************************************************)
BksDay(id, name, date) == [cls |-> "Day", id |-> id, name |-> name, date |-> date]

BksParsedEvent(day_id, name, url) ==
    [cls |-> "ParsedEvent", day_id |-> day_id, name |-> name, url |-> url]

bks_stages == <<
    Stage("one", "One", "#53b950"),
    Stage("two", "Two", "#fce112") >>

bks_days == <<
    BksDay("friday", "Friday", "2026-06-12"),
    BksDay("saturday", "Saturday", "2026-06-14") >>

\* DaySchedule.empty
empty_day_schedule(day, stgs) ==
    DaySchedule(day.id, day.name, day.date, [id \in {stgs[k].id : k \in 1..Len(stgs)} |-> <<>>])

create_empty_schedule(cfg, stgs, dys) ==
    Schedule(cfg, stgs, [d \in 1..Len(dys) |-> empty_day_schedule(dys[d], stgs)])

\* Schedule._day_id_to_index: the first day with that id
day_id_to_index(sched, day_id) ==
    CHOOSE i \in 1..Len(sched.schedule) :
        /\ sched.schedule[i].id = day_id
        /\ \A j \in 1..(i - 1) : sched.schedule[j].id # day_id

\* a plausible slip: the else of line 79 on the inner loop, so that the search
\* ends after the first stage's bucket
is_in_schedule_first_bucket(sched, day_id, name) ==
    LET day_events == sched.schedule[day_id_to_index(sched, day_id)].events
        first_events == day_events[sched.stages[1].id]
    IN  \E i \in 1..Len(first_events) : first_events[i].name = name

\* Schedule.is_in_schedule
is_in_schedule(sched, day_id, name) ==
    LET day_events == sched.schedule[day_id_to_index(sched, day_id)].events
    IN  \E id \in DOMAIN day_events : \E i \in 1..Len(day_events[id]) : day_events[id][i].name = name

\* a plausible slip: the bucket overwritten by the new event
add_event_overwriting(sched, stage_id, day_id, event) ==
    [sched EXCEPT !.schedule[day_id_to_index(sched, day_id)].events[stage_id] = <<event>>]

\* Schedule.add_event: append, then list.sort (stable) by the start text
add_event(sched, stage_id, day_id, event) ==
    [sched EXCEPT !.schedule[day_id_to_index(sched, day_id)].events[stage_id] =
        StableSort(Append(@, event), StartTextLess(Append(@, event)))]

\* dataclasses.asdict of one object: its fields, without the class; a dict is
\* copied as it is
FieldsOf(obj) == [f \in DOMAIN obj \ {"cls"} |-> obj[f]]

\* dataclasses.asdict(schedule), which json.dump writes and json.load reads
\* back as the same objects, arrays, strings and numbers
asdict(sched) ==
    [config |-> [blockHeight |-> FieldsOf(sched.config.blockHeight)],
     stages |-> [k \in 1..Len(sched.stages) |-> FieldsOf(sched.stages[k])],
     schedule |-> [d \in 1..Len(sched.schedule) |->
        [id |-> sched.schedule[d].id,
         name |-> sched.schedule[d].name,
         date |-> sched.schedule[d].date,
         events |-> [id \in DOMAIN sched.schedule[d].events |->
            [i \in 1..Len(sched.schedule[d].events[id]) |->
                FieldsOf(sched.schedule[d].events[id][i])]]]]]

\* Schedule.load: ScheduleConfig(**raw["config"]) keeps the blockHeight dict
\* as it is; stages, day schedules and events are rebuilt as objects
Schedule_load(raw) ==
    Schedule(
        ScheduleConfig(raw.config.blockHeight),
        [k \in 1..Len(raw.stages) |->
            Stage(raw.stages[k].id, raw.stages[k].name, raw.stages[k].colour)],
        [d \in 1..Len(raw.schedule) |->
            DaySchedule(raw.schedule[d].id, raw.schedule[d].name, raw.schedule[d].date,
                [id \in DOMAIN raw.schedule[d].events |->
                    [i \in 1..Len(raw.schedule[d].events[id]) |->
                        Event(raw.schedule[d].events[id][i].start,
                              raw.schedule[d].events[id][i].end,
                              raw.schedule[d].events[id][i].name,
                              raw.schedule[d].events[id][i].url)]])])

\* prompt_for_end_time: what an empty answer to both prompts gives
default_end_time(start_time, default_duration_minutes) ==
    LET total == start_time[2] + default_duration_minutes
        over == IF total > 59 THEN ((total - 60) \div 60) + 1 ELSE 0
    IN  <<(start_time[1] + over) % 24, total - 60 * over>>

(***************************************************************************)
(* annotate_events, after main has created and saved an empty schedule or  *)
(* loaded the one an earlier run saved.                                    *)
(***************************************************************************)
MaxCandidates == 2

BksUrl(name) == <<"https://www.bestkeptsecret.nl", "/program/", name>>

CandidatePool ==
    {BksParsedEvent(bks_days[d].id, n, BksUrl(n)) : d \in 1..Len(bks_days), n \in {"X", "Y"}}

\* what the user types: a stage number, a start time and an end time (none
\* for the default)
StartInputs == {<<23, 30>>, <<1, 0>>}
EndInputs(start_time) == {default_end_time(start_time, 45), <<23, 59>>}

\* the events earlier runs may have added before they saved the file
EarlierRuns == {
    <<>>,
    << <<"one", "friday", Event(T(21, 30), T(22, 15), "X", BksUrl("X"))>> >>,
    << <<"one", "friday", Event(T(21, 30), T(22, 15), "X", BksUrl("X"))>>,
       <<"one", "friday", Event(T(1, 0), T(1, 45), "Z", BksUrl("Z"))>> >>,
    << <<"two", "friday", Event(T(20, 0), T(20, 45), "x", BksUrl("x"))>> >> }

RECURSIVE AfterAdding(_, _)
AfterAdding(sched, adds) ==
    IF adds = <<>> THEN sched
    ELSE AfterAdding(add_event(sched, adds[1][1], adds[1][2], adds[1][3]), Tail(adds))

\* annotate_events visits, day by day, the parsed events of that day in list
\* order: the (day, event) index pairs in that order
Worklist ==
    LET n == Len(parsed_events)
        todo == {<<d, i>> : d \in 1..Len(bks_days), i \in 1..n}
        mine == {w \in todo : parsed_events[w[2]].day_id = bks_days[w[1]].id}
        rank(w) == Cardinality({v \in mine : v[1] < w[1] \/ (v[1] = w[1] /\ v[2] <= w[2])})
    IN  [k \in 1..Cardinality(mine) |-> CHOOSE w \in mine : rank(w) = k]

CurrentDay == bks_days[Worklist[cursor][1]]
CurrentEvent == parsed_events[Worklist[cursor][2]]

InitAnnotate ==
    /\ pc = "loop"
    /\ parsed_events \in SeqsUpTo(CandidatePool, MaxCandidates)
    /\ \/ /\ schedule = Returned(create_empty_schedule(config, bks_stages, bks_days))
          /\ file = asdict(schedule.value)
       \/ /\ file \in {asdict(AfterAdding(create_empty_schedule(config, bks_stages, bks_days), adds)) :
                          adds \in EarlierRuns}
          /\ schedule = Returned(Schedule_load(file))
    /\ cursor = 1
    /\ loaded = NoSchedule
    /\ KeyIdle /\ ExtIdle /\ GatIdle

\* lines 181-185
SkipKnown ==
    /\ pc = "loop"
    /\ cursor <= Len(Worklist)
    /\ is_in_schedule(schedule.value, CurrentDay.id, CurrentEvent.name)
    /\ cursor' = cursor + 1
    /\ UNCHANGED <<pc, parsed_events, schedule, file, loaded, notAnnVars>>

\* lines 187-203: the prompts are answered and the event is added
Annotate(stage_number, start_time, end_time) ==
    /\ pc = "loop"
    /\ cursor <= Len(Worklist)
    /\ ~is_in_schedule(schedule.value, CurrentDay.id, CurrentEvent.name)
    /\ schedule' = Returned(add_event(schedule.value, bks_stages[stage_number].id, CurrentDay.id,
                        Event(time_to_string(start_time), time_to_string(end_time),
                              CurrentEvent.name, CurrentEvent.url)))
    /\ pc' = "save"
    /\ UNCHANGED <<parsed_events, cursor, file, loaded, notAnnVars>>

\* input() raises EOFError or KeyboardInterrupt at a prompt: the run ends
Interrupt ==
    /\ pc = "loop"
    /\ cursor <= Len(Worklist)
    /\ ~is_in_schedule(schedule.value, CurrentDay.id, CurrentEvent.name)
    /\ pc' = "aborted"
    /\ UNCHANGED <<parsed_events, schedule, annVars, notAnnVars>>

\* line 204
Save ==
    /\ pc = "save"
    /\ file' = asdict(schedule.value)
    /\ cursor' = cursor + 1
    /\ pc' = "loop"
    /\ UNCHANGED <<parsed_events, schedule, loaded, notAnnVars>>

Finish ==
    /\ pc = "loop"
    /\ cursor > Len(Worklist)
    /\ pc' = "done"
    /\ UNCHANGED <<parsed_events, schedule, annVars, notAnnVars>>

\* the next run of main finds the file and loads it (line 310)
Load ==
    /\ pc \in {"done", "aborted"}
    /\ loaded' = Returned(Schedule_load(file))
    /\ pc' = "reloaded"
    /\ UNCHANGED <<parsed_events, schedule, cursor, file, notAnnVars>>

NextAnnotate ==
    \/ SkipKnown
    \/ \E stage_number \in 1..Len(bks_stages) : \E start_time \in StartInputs :
          \E end_time \in EndInputs(start_time) : Annotate(stage_number, start_time, end_time)
    \/ Interrupt
    \/ Save
    \/ Finish
    \/ Load

SpecAnnotate == InitAnnotate /\ [][NextAnnotate]_vars

Buckets_bks == {<<d, id>> : d \in 1..Len(bks_days), id \in {bks_stages[k].id : k \in 1..Len(bks_stages)}}

RECURSIVE SumOver(_, _)
SumOver(f, S) ==
    IF S = {} THEN 0
    ELSE LET x == CHOOSE x \in S : TRUE IN f[x] + SumOver(f, S \ {x})

\* the number of events in a Schedule object or in a saved document
NumEvents(sched) ==
    SumOver([b \in Buckets_bks |-> Len(sched.schedule[b[1]].events[b[2]])], Buckets_bks)

\* every event of sched is in the same bucket of later, field by field, at
\* least as many times
KeepsAllEvents(sched, later) ==
    \A b \in Buckets_bks :
        \A ev \in Range(sched.schedule[b[1]].events[b[2]]) :
            Count(later.schedule[b[1]].events[b[2]], ev)
                >= Count(sched.schedule[b[1]].events[b[2]], ev)

\* C10: in annotate_events the schedule changes only by one append at a
\* time, made when everything before it has been saved; every save writes
\* the whole schedule, one event more than the save before; and no step
\* removes an event from the schedule or from the file, or changes its
\* fields.
C10_OneAppendPerSave ==
    [][/\ schedule' # schedule =>
            /\ file = asdict(schedule.value)
            /\ NumEvents(schedule'.value) = NumEvents(schedule.value) + 1
            /\ pc' = "save"
       /\ file' # file =>
            /\ file' = asdict(schedule'.value)
            /\ schedule' = schedule
            /\ NumEvents(file') = NumEvents(file) + 1
       /\ KeepsAllEvents(schedule.value, schedule'.value)
       /\ KeepsAllEvents(file, file')
       /\ pc = "save" => file' # file
      ]_vars

\* two candidates annotated and saved on top of the two events of an
\* earlier run, one of them into the bucket of those two, between them
C10_Witness ==
    /\ pc = "done"
    /\ NumEvents(schedule.value) = 4
    /\ Len(schedule.value.schedule[1].events["one"]) = 3
    /\ schedule.value.schedule[1].events["one"][1].name = "Z"
    /\ schedule.value.schedule[1].events["one"][2].name = "Y"
    /\ schedule.value.schedule[1].events["one"][3].name = "X"
    /\ file = asdict(schedule.value)

\* C6: a Schedule that is saved and then loaded is equal to the original in
\* all fields, config and its blockHeight included.
C6_SaveLoadRoundTrip ==
    (pc = "reloaded" /\ file = asdict(schedule.value)) => loaded = schedule

\* how many events of the day with index d, over all its stage buckets, have
\* exactly that name
CountName(sched, d, name) ==
    LET day_events == sched.schedule[d].events
    IN  SumOver([id \in DOMAIN day_events |->
                    Cardinality({i \in 1..Len(day_events[id]) : day_events[id][i].name = name})],
                DOMAIN day_events)

NamesOfDay(sched, d) ==
    LET day_events == sched.schedule[d].events
    IN  UNION {{day_events[id][i].name : i \in 1..Len(day_events[id])} : id \in DOMAIN day_events}

NoTwoEventsSameName(sched, d) ==
    \A name \in NamesOfDay(sched, d) : CountName(sched, d, name) = 1

\* C11: when annotate_events reaches a candidate whose exact name some event
\* in any stage bucket of the candidate's day already has, it moves on to the
\* next candidate without a prompt, an add or a save; a candidate whose name
\* no event of its day has is prompted for and, unless the prompt is
\* interrupted, added once; the schedule changes in no other way; hence a day
\* without two events of the same name stays so after every step, whatever
\* the candidate list, one that lists the same (day, name) twice included.
C11_KnownCandidatesAreSkipped ==
    [][/\ (pc = "loop" /\ cursor <= Len(Worklist)) =>
            LET d == Worklist[cursor][1]
                name == CurrentEvent.name
            IN  IF CountName(schedule.value, d, name) > 0
                THEN /\ schedule' = schedule
                     /\ file' = file
                     /\ pc' = "loop"
                     /\ cursor' = cursor + 1
                ELSE \/ /\ pc' = "aborted"
                        /\ schedule' = schedule
                        /\ file' = file
                     \/ /\ pc' = "save"
                        /\ CountName(schedule'.value, d, name) = 1
                        /\ NumEvents(schedule'.value) = NumEvents(schedule.value) + 1
       /\ schedule' # schedule => (pc = "loop" /\ cursor <= Len(Worklist))
       /\ \A d \in 1..Len(bks_days) :
            NoTwoEventsSameName(schedule.value, d) => NoTwoEventsSameName(schedule'.value, d)
      ]_vars

\* the same (day, name) listed twice: the first was added to the second
\* stage's bucket and saved, the second was skipped; and a candidate "X" was
\* added to a day that had an event "x"
C11_Witness ==
    /\ pc = "done"
    /\ Len(parsed_events) = 2
    /\ parsed_events[1] = parsed_events[2]
    /\ parsed_events[1].day_id = "friday"
    /\ parsed_events[1].name = "X"
    /\ CountName(schedule.value, 1, "x") = 1
    /\ CountName(schedule.value, 1, "X") = 1
    /\ Len(schedule.value.schedule[1].events["two"]) = 2
    /\ NumEvents(schedule.value) = 2
    /\ file = asdict(schedule.value)

====
